---------------------------- MODULE Spec2Model ----------------------------
(***************************************************************************)
(* Verification model of the qml-mooc notebooks.                           *)
(*                                                                         *)
(* The notebooks are straight-line cells.  Seven pieces of them carry      *)
(* behaviour worth checking, and each gets its own specification:          *)
(*                                                                         *)
(*   SpecPsuccess  get_psuccess of 14_Quantum_Matrix_Inversion             *)
(*   SpecAnneal    the clamped simulated-annealing cell (part_000)         *)
(*   SpecCircuit   the measurement and phase-estimation circuits, run      *)
(*                 repetition by repetition on a state-vector simulator,   *)
(*                 and the two simulated Bloch-sphere cells                *)
(*   SpecVector    get_vector of 02_Measurements_and_Mixed_States          *)
(*   SpecHistogram plot_histogram of the same notebook                     *)
(*   SpecHhl       the eigenvalue-register gates of the HHL circuit and    *)
(*                 their uncomputation (14_Quantum_Matrix_Inversion)       *)
(*   SpecDegeneracy  the degeneracy-counting cell (part_000)               *)
(*                                                                         *)
(* A specification leaves the variables of the other cells at their idle   *)
(* values.                                                                 *)
(***************************************************************************)
EXTENDS Integers, Sequences, FiniteSets, TLC

VARIABLES
    \* ---- get_psuccess ----
    counts,          \* the argument: a mapping outcome string -> count
    ps_pc,           \* "call" before the call, "returned" / "raised" after
    ps_ret,          \* the returned value, a fraction <<num, den>>
    ps_exc,          \* the exception that left the function, or "none"
    \* ---- clamped simulated annealing ----
    spins,           \* node -> -1 | 1
    colors,          \* the colour classes returned by greedy_coloring, in order
    sa_pc,           \* "sweep" | "color" | "update" | "done"
    sweep,           \* index i of the current beta in betas (0-based)
    color_idx,       \* position in colors of the colour being updated (1-based)
    energy_diff_h,   \* node -> the field part of the flip's energy change
    energy_diff_J,   \* node of the current colour -> the coupling part
    pending,         \* unclamped nodes of the current colour not yet visited
    \* ---- circuits on the simulator ----
    circ,            \* the circuit handed to simulator.run
    qc_pc,           \* position of the next operation of the circuit (1-based)
    psi,             \* the state vector, basis state -> amplitude
    meas,            \* measurement key -> outcome, for the running repetition
    hist,            \* multi_measurement_histogram: outcome tuple -> count
    rep,             \* repetitions completed
    final_state_vector,  \* result.final_state_vector of the last simulate
    \* ---- get_vector ----
    alpha, beta,     \* the arguments: two complex amplitudes
    gv_pc,           \* the statement get_vector is at
    angle_alpha,     \* phase of alpha, after the snap of pi to 0
    angle_beta,      \* phase of beta, after the snap of pi to 0
    denominator,     \* the global phase divided out
    alpha_new,       \* alpha / denominator
    beta_new,        \* beta / denominator
    gv_ret,          \* the returned value
    gv_exc,          \* the exception that left the function, or "none"
    \* ---- plot_histogram ----
    ph_counts,       \* the argument: the items (key, value) in iteration order
    ph_pc,           \* "call" before the call, "shown" after plt.show()
    ph_x,            \* the local x
    ph_bars,         \* the bars drawn by plt.bar, in order
    ph_xticks,       \* the ticks set by plt.xticks, in order
    \* ---- the HHL circuit's eigenvalue register ----
    hhl_in,          \* the basis state of q[1], q[2], q[3] the gates start from
    hhl_from,        \* index in the forward gates of the first gate applied
    hhl_pc,          \* position of the next gate (1-based), 0 when idle
    hhl_psi,         \* the state vector of q[1], q[2], q[3]
    \* ---- the degeneracy cell ----
    response,        \* the samples read so far: configuration -> occurrences
    dg_pc,           \* "sample" | "loop" | "done"
    dg_rows,         \* rows of response.aggregate().data() not yet visited
    dg_g             \* the dictionary g: energy -> count

psVars == <<counts, ps_pc, ps_ret, ps_exc>>
saVars == <<spins, colors, sa_pc, sweep, color_idx, energy_diff_h,
            energy_diff_J, pending>>

qcVars == <<circ, qc_pc, psi, meas, hist, rep, final_state_vector>>

gvVars == <<alpha, beta, gv_pc, angle_alpha, angle_beta, denominator,
            alpha_new, beta_new, gv_ret, gv_exc>>

phVars == <<ph_counts, ph_pc, ph_x, ph_bars, ph_xticks>>

\* The variables of the cells modelled after get_vector.
hhlVars == <<hhl_in, hhl_from, hhl_pc, hhl_psi>>

dgVars == <<response, dg_pc, dg_rows, dg_g>>

laterVars == <<phVars, hhlVars, dgVars>>

vars == <<psVars, saVars, qcVars, gvVars, laterVars>>

-----------------------------------------------------------------------------
(***************************************************************************)
(* Arithmetic helpers.  Python's true division of two ints is modelled by  *)
(* the fraction in lowest terms, so two results are equal exactly when the *)
(* quotients are equal.                                                    *)
(***************************************************************************)
RECURSIVE GCD(_, _)
GCD(a, b) == IF b = 0 THEN a ELSE GCD(b, a % b)

Frac(n, d) == LET g == GCD(n, d) IN <<n \div g, d \div g>>

Zero == <<0, 1>>

-----------------------------------------------------------------------------
(***************************************************************************)
(* get_psuccess                                                            *)
(***************************************************************************)
\* Largest count drawn for a histogram entry.
MaxCount == 2

\* The outcome strings fold_func can produce for the two measured qubits.
OutcomeKeys == {"00", "01", "10", "11"}

\* Every histogram over a subset of the outcome strings.
CountsSet == UNION {[K -> 0..MaxCount] : K \in SUBSET OutcomeKeys}

\* counts[k]: the value, or KeyError when the key is absent.
GetItem(c, k) ==
    IF k \in DOMAIN c THEN [exc |-> "none", val |-> c[k]]
    ELSE [exc |-> "KeyError", val |-> 0]

\* try: x = counts[k]  except KeyError: x = 0   (the handler dropped: mutant)
LookupUnhandled(c, k) == GetItem(c, k)

\* try: x = counts[k]  except KeyError: x = 0
LookupOrZero(c, k) ==
    LET r == GetItem(c, k)
    IN  IF r.exc = "KeyError" THEN [exc |-> "none", val |-> 0] ELSE r

\* n / d: ZeroDivisionError when d = 0.
TrueDiv(n, d) ==
    IF d = 0 THEN [exc |-> "ZeroDivisionError", val |-> Zero]
    ELSE [exc |-> "none", val |-> Frac(n, d)]

\* The division with its handler dropped (mutant).
DivideUnhandled(n, d) == TrueDiv(n, d)

\* try: p = succ / rot  except ZeroDivisionError: p = 0
DivideOrZero(n, d) ==
    LET r == TrueDiv(n, d)
    IN  IF r.exc = "ZeroDivisionError" THEN [exc |-> "none", val |-> Zero] ELSE r

\* Another outcome read into succ_rotation_succ_swap (mutant).
SuccSwapKeyOther == "10"

\* The key read into succ_rotation_succ_swap.
SuccSwapKey == "01"

\* The key read into succ_rotation_fail_swap.
FailSwapKey == "11"

\* The whole function: the exception that leaves it (or "none") and its value.
get_psuccess(c) ==
    LET fail == LookupOrZero(c, FailSwapKey)
        succ == LookupOrZero(c, SuccSwapKey)
    IN  IF fail.exc # "none" THEN [exc |-> fail.exc, val |-> Zero]
        ELSE IF succ.exc # "none" THEN [exc |-> succ.exc, val |-> Zero]
        ELSE LET succ_rotation == succ.val + fail.val
             IN  DivideOrZero(succ.val, succ_rotation)

PsIdle ==
    /\ counts = <<>>
    /\ ps_pc = "idle"
    /\ ps_ret = Zero
    /\ ps_exc = "none"

PsInit ==
    /\ counts \in CountsSet
    /\ ps_pc = "call"
    /\ ps_ret = Zero
    /\ ps_exc = "none"

\* print(get_psuccess(counts))
CallGetPsuccess ==
    /\ ps_pc = "call"
    /\ LET r == get_psuccess(counts)
       IN  /\ ps_exc' = r.exc
           /\ ps_ret' = r.val
           /\ ps_pc' = IF r.exc = "none" THEN "returned" ELSE "raised"
    /\ UNCHANGED counts
    /\ UNCHANGED <<saVars, qcVars, gvVars, laterVars>>

-----------------------------------------------------------------------------
(***************************************************************************)
(* The clamped simulated-annealing cell.                                   *)
(*                                                                         *)
(* Numbers are kept exact: beta_i = 1 - i/(num_sweeps-1) is the fraction   *)
(* BetaNum(i)/(num_sweeps-1), and log(uniform(0,1)) is drawn as a negative *)
(* multiple of 1/(num_sweeps-1).  The draws range over enough multiples    *)
(* that each comparison of the loop can come out either way whenever it    *)
(* can for a real draw.                                                    *)
(***************************************************************************)
n_spins == 3

\* num_sweeps of the cell, scaled down (1000 in the notebook).
num_sweeps == 4

Nodes == 0..(n_spins - 1)

h == [v \in Nodes |-> 1]

J == (<<0, 1>> :> 2) @@ (<<1, 2>> :> (0 - 1))

clamped_spins == (0 :> (0 - 1))

\* adj[n]: the neighbours of n.
adj == [n \in Nodes |->
          {m \in Nodes : <<n, m>> \in DOMAIN J \/ <<m, n>> \in DOMAIN J}]

\* A sequence of node sets is a proper colouring with as few colours as the
\* greedy routine uses on this graph.
IsColoring(cs) ==
    /\ \A i \in DOMAIN cs : cs[i] # {}
    /\ \A i \in DOMAIN cs : \A u, v \in cs[i] : v \notin adj[u]
    /\ \A i, j \in DOMAIN cs : i # j => cs[i] \cap cs[j] = {}
    /\ UNION {cs[i] : i \in DOMAIN cs} = Nodes

\* __, colors = greedy_coloring(adj): the colour classes, in either order.
GreedyColorings ==
    {cs \in [1..2 -> SUBSET Nodes] : IsColoring(cs)}

\* Numerator of beta_i over the denominator num_sweeps - 1.
BetaNum(i) == (num_sweeps - 1) - i

Abs(x) == IF x < 0 THEN 0 - x ELSE x

RECURSIVE SumOver(_, _)
SumOver(S, f) ==
    IF S = {} THEN 0
    ELSE LET x == CHOOSE y \in S : TRUE IN f[x] + SumOver(S \ {x}, f)

\* An upper bound of |energy_diff_h[v] + energy_diff_J[v]|.
MaxDelta ==
    2 * (SumOver(Nodes, [v \in Nodes |-> Abs(h[v])])
         + SumOver(DOMAIN J, [e \in DOMAIN J |-> Abs(J[e])]))

\* logp = np.log(np.random.uniform(0, 1)), times num_sweeps - 1: negative,
\* as uniform(0, 1) draws from [0, 1).
LogpDraws == (0 - (MaxDelta * (num_sweeps - 1) + 1))..(0 - 1)

\* The inner loop over adj[v0], doubled and negated: energy_diff_J[v0].
EdiffJ(s, v0) ==
    LET term(v1) ==
            (IF <<v0, v1>> \in DOMAIN J THEN s[v0] * s[v1] * J[<<v0, v1>>] ELSE 0)
          + (IF <<v1, v0>> \in DOMAIN J THEN s[v0] * s[v1] * J[<<v1, v0>>] ELSE 0)
    IN  (0 - 2) * SumOver(adj[v0], [v1 \in adj[v0] |-> term(v1)])

\* The loop over every node of the colour, clamped or not (mutant).
UpdatedAll(nodes) == nodes

\* filter(lambda x: x not in clamped_spins, nodes)
Updated(nodes) == {x \in nodes : x \notin DOMAIN clamped_spins}

\* logp < -1. * beta * (energy_diff_h[v] + energy_diff_J[v]), both sides
\* multiplied by num_sweeps - 1.
Accepts(logp, i, dh, dJ) == logp < (0 - 1) * BetaNum(i) * (dh + dJ)

SaIdle ==
    /\ spins = <<>>
    /\ colors = <<>>
    /\ sa_pc = "idle"
    /\ sweep = 0
    /\ color_idx = 0
    /\ energy_diff_h = <<>>
    /\ energy_diff_J = <<>>
    /\ pending = {}

\* The cell up to the start of the loop over betas.
SaInit ==
    /\ colors \in GreedyColorings
    /\ spins \in {s \in [Nodes -> {0 - 1, 1}] :
                    \A v \in DOMAIN clamped_spins : s[v] = clamped_spins[v]}
    /\ sa_pc = "sweep"
    /\ sweep = 0
    /\ color_idx = 0
    /\ energy_diff_h = <<>>
    /\ energy_diff_J = <<>>
    /\ pending = {}

\* for beta in betas: energy_diff_h = {...}
SweepBegin ==
    /\ sa_pc = "sweep"
    /\ sweep < num_sweeps
    /\ energy_diff_h' = [v \in Nodes |-> (0 - 2) * spins[v] * h[v]]
    /\ color_idx' = 1
    /\ sa_pc' = "color"
    /\ UNCHANGED <<spins, colors, sweep, energy_diff_J, pending>>
    /\ UNCHANGED <<psVars, qcVars, gvVars, laterVars>>

\* for color in colors: energy_diff_J for the colour's nodes
ColorBegin ==
    /\ sa_pc = "color"
    /\ color_idx <= Len(colors)
    /\ LET nodes == colors[color_idx]
       IN  /\ energy_diff_J' = [v0 \in nodes |-> EdiffJ(spins, v0)]
           /\ pending' = Updated(nodes)
    /\ sa_pc' = "update"
    /\ UNCHANGED <<spins, colors, sweep, color_idx, energy_diff_h>>
    /\ UNCHANGED <<psVars, qcVars, gvVars, laterVars>>

\* One pass of the loop over the colour's updated nodes: draw, maybe flip.
UpdateNode ==
    /\ sa_pc = "update"
    /\ \E v \in pending : \E logp \in LogpDraws :
         /\ spins' = IF Accepts(logp, sweep, energy_diff_h[v], energy_diff_J[v])
                      THEN [spins EXCEPT ![v] = (0 - 1) * @]
                      ELSE spins
         /\ pending' = pending \ {v}
    /\ UNCHANGED <<colors, sa_pc, sweep, color_idx, energy_diff_h, energy_diff_J>>
    /\ UNCHANGED <<psVars, qcVars, gvVars, laterVars>>

\* The colour's nodes are exhausted: next colour.
ColorEnd ==
    /\ sa_pc = "update"
    /\ pending = {}
    /\ color_idx' = color_idx + 1
    /\ sa_pc' = "color"
    /\ UNCHANGED <<spins, colors, sweep, energy_diff_h, energy_diff_J, pending>>
    /\ UNCHANGED <<psVars, qcVars, gvVars, laterVars>>

\* The colours are exhausted: next beta.
SweepEnd ==
    /\ sa_pc = "color"
    /\ color_idx > Len(colors)
    /\ sweep' = sweep + 1
    /\ sa_pc' = "sweep"
    /\ UNCHANGED <<spins, colors, color_idx, energy_diff_h, energy_diff_J, pending>>
    /\ UNCHANGED <<psVars, qcVars, gvVars, laterVars>>

\* The betas are exhausted: the cell is over and spins is displayed.
AnnealDone ==
    /\ sa_pc = "sweep"
    /\ sweep = num_sweeps
    /\ sa_pc' = "done"
    /\ UNCHANGED <<spins, colors, sweep, color_idx, energy_diff_h, energy_diff_J,
                   pending>>
    /\ UNCHANGED <<psVars, qcVars, gvVars, laterVars>>

\* E(s) of the Ising model.
Energy(s) ==
    SumOver(Nodes, [v \in Nodes |-> h[v] * s[v]])
  + SumOver(DOMAIN J, [e \in DOMAIN J |-> J[e] * s[e[1]] * s[e[2]]])


-----------------------------------------------------------------------------
(***************************************************************************)
(* The circuits and the simulator.                                         *)
(*                                                                         *)
(* Every gate of these circuits has real entries, and all of them are      *)
(* integers up to the factor 1/sqrt(2) of H.  The state vector is kept as  *)
(* integer amplitudes up to a positive factor (divided by their gcd after  *)
(* every step), which decides exactly which measurement outcomes have      *)
(* non-zero probability.                                                   *)
(***************************************************************************)
\* Repetitions of simulator.run, scaled down (100 and 2000 in the notebooks).
MaxRepetitions == 6

Gate1(g, q) == [gate |-> g, qs |-> <<q>>]
Gate2(g, a, b) == [gate |-> g, qs |-> <<a, b>>]
\* cirq.CZ(a, b)**e
CZPow(a, b, e) == [gate |-> "CZPow", qs |-> <<a, b>>, e |-> e]
\* cirq.measure(q, key=k)
MeasureOp(q, k) == [gate |-> "measure", qs |-> <<q>>, key |-> k]

\* H; measure m0; measure m1 on the same qubit
DoubleCircuit ==
    <<Gate1("H", 0), MeasureOp(0, "m0"), MeasureOp(0, "m1")>>

\* The circuit with the two qubits entangled before the measurements (mutant).
LocalCircuitWithCNOT ==
    <<Gate1("H", 0), Gate2("CNOT", 0, 1), MeasureOp(0, "m0"), MeasureOp(1, "m1")>>

\* H(q[0]); measure(q[0], m0); measure(q[1], m1)
LocalCircuit ==
    <<Gate1("H", 0), MeasureOp(0, "m0"), MeasureOp(1, "m1")>>

\* The entangling gate with control and target exchanged (mutant).
BellCircuitSwapped ==
    <<Gate1("H", 0), Gate2("CNOT", 1, 0), MeasureOp(0, "m0"), MeasureOp(1, "m1")>>

\* H(q[0]); CNOT(q[0], q[1]); measure both
BellCircuit ==
    <<Gate1("H", 0), Gate2("CNOT", 0, 1), MeasureOp(0, "m0"), MeasureOp(1, "m1")>>

\* Qubits of the phase-estimation cells: q0, q1 and the main register.
q0 == 0
q1 == 1
ancilla == 2

\* The inverse Fourier transform without its last Hadamard (mutant).
InverseQFTNoH ==
    <<Gate2("SWAP", q0, q1), Gate1("H", q1), CZPow(q0, q1, 0 - 1),
      MeasureOp(q0, "q0"), MeasureOp(q1, "q1")>>

\* SWAP, H, CZ**-1, H and the two measurements
InverseQFT ==
    <<Gate2("SWAP", q0, q1), Gate1("H", q1), CZPow(q0, q1, 0 - 1), Gate1("H", q0),
      MeasureOp(q0, "q0"), MeasureOp(q1, "q1")>>

\* Phase estimation with |0> in the main register
QpeZeroCircuit ==
    <<Gate1("H", q0), Gate1("H", q1), CZPow(q1, ancilla, 1)>> \o InverseQFT

\* The cell's circuit without its SWAP (mutant).
QpeOneCircuitNoSwap ==
    <<Gate1("X", ancilla), Gate1("H", q0), Gate1("H", q1), CZPow(q1, ancilla, 1),
      Gate1("H", q1), CZPow(q0, q1, 0 - 1), Gate1("H", q0),
      MeasureOp(q0, "q0"), MeasureOp(q1, "q1")>>

\* Phase estimation with |1> in the main register
QpeOneCircuit ==
    <<Gate1("X", ancilla), Gate1("H", q0), Gate1("H", q1), CZPow(q1, ancilla, 1),
      Gate2("SWAP", q0, q1), Gate1("H", q1), CZPow(q0, q1, 0 - 1), Gate1("H", q0),
      MeasureOp(q0, "q0"), MeasureOp(q1, "q1")>>

\* The Bloch-sphere cell "initial state": only a measurement.
InitialStateCircuit == <<MeasureOp(0, "m")>>

\* The Bloch-sphere cell "After a Hadamard gate".
HadamardCircuit == <<Gate1("H", 0), MeasureOp(0, "m")>>

\* The circuits handed to simulator.run ...
Circuits == {"double", "local", "bell", "qpe0", "qpe1"}

\* ... and those handed to simulator.simulate.
SimulateCircuits == {"initial", "hadamard"}

Ops(c) ==
    CASE c = "double" -> DoubleCircuit
      [] c = "local"  -> LocalCircuit
      [] c = "bell"   -> BellCircuit
      [] c = "qpe0"   -> QpeZeroCircuit
      [] c = "qpe1"   -> QpeOneCircuit
      [] c = "initial" -> InitialStateCircuit
      [] c = "hadamard" -> HadamardCircuit

\* Number of qubits the circuit acts on.
NumQubits(c) ==
    CASE c \in {"double", "initial", "hadamard"} -> 1
      [] c \in {"local", "bell"} -> 2
      [] c \in {"qpe0", "qpe1"} -> 3

\* keys=[...] of the cell's multi_measurement_histogram call
HistKeys(c) ==
    CASE c = "double" -> <<"m0", "m1">>
      [] c \in {"local", "bell"} -> <<"m1", "m0">>
      [] c \in {"qpe0", "qpe1"} -> <<"q0", "q1">>

Bit == {0, 1}
Basis(c) == [0..(NumQubits(c) - 1) -> Bit]
Outcomes == [1..2 -> Bit]

\* |0...0>
ZeroState(c) == [x \in Basis(c) |-> IF \A q \in DOMAIN x : x[q] = 0 THEN 1 ELSE 0]

RECURSIVE GcdOfSet(_)
GcdOfSet(S) ==
    IF S = {} THEN 0
    ELSE LET x == CHOOSE y \in S : TRUE IN GCD(x, GcdOfSet(S \ {x}))

\* The same state with its amplitudes in lowest terms.
Normalize(v) ==
    LET g == GcdOfSet({Abs(v[x]) : x \in DOMAIN v})
    IN  IF g = 0 THEN v ELSE [x \in DOMAIN v |-> v[x] \div g]

Flip(x, q) == [x EXCEPT ![q] = 1 - @]

\* exp(i pi e) for an integer exponent e
SignPow(e) == IF e % 2 = 0 THEN 1 ELSE 0 - 1

\* The unitary of one gate applied to v (H without its factor 1/sqrt(2)).
ApplyUnitary(op, v) ==
    LET a == op.qs[1]
    IN  CASE op.gate = "H" ->
               [x \in DOMAIN v |->
                   v[[x EXCEPT ![a] = 0]]
                   + (IF x[a] = 1 THEN 0 - 1 ELSE 1) * v[[x EXCEPT ![a] = 1]]]
          [] op.gate = "X" ->
               [x \in DOMAIN v |-> v[Flip(x, a)]]
          [] op.gate = "CNOT" ->
               [x \in DOMAIN v |->
                   IF x[a] = 1 THEN v[Flip(x, op.qs[2])] ELSE v[x]]
          [] op.gate = "CZPow" ->
               [x \in DOMAIN v |->
                   IF x[a] = 1 /\ x[op.qs[2]] = 1 THEN SignPow(op.e) * v[x] ELSE v[x]]
          [] op.gate = "SWAP" ->
               [x \in DOMAIN v |->
                   v[[x EXCEPT ![a] = x[op.qs[2]], ![op.qs[2]] = x[a]]]]

\* The weight of outcome b on qubit q: the Born probability times the norm.
Weight(v, q, b) ==
    SumOver({x \in DOMAIN v : x[q] = b}, [x \in DOMAIN v |-> v[x] * v[x]])

\* A measurement that leaves the state as it was (mutant).
NoCollapse(v, q, b) == v

\* The state after outcome b on qubit q: projected and renormalised.
Collapse(v, q, b) ==
    Normalize([x \in DOMAIN v |-> IF x[q] = b THEN v[x] ELSE 0])

NoCounts == [t \in Outcomes |-> 0]

QcIdle ==
    /\ circ = "none"
    /\ qc_pc = 0
    /\ psi = <<>>
    /\ meas = <<>>
    /\ hist = <<>>
    /\ rep = 0
    /\ final_state_vector = <<>>

\* simulator.run(circuit, repetitions=...) or simulator.simulate(circuit) is
\* called on one of the circuits; a repetition of a simulated circuit is one
\* execution of its cell.
QcInit ==
    /\ circ \in Circuits \cup SimulateCircuits
    /\ qc_pc = 1
    /\ psi = ZeroState(circ)
    /\ meas = <<>>
    /\ hist = NoCounts
    /\ rep = 0
    /\ final_state_vector = <<>>

\* The next operation is a gate: the state evolves.
ApplyGate ==
    /\ circ \in Circuits \cup SimulateCircuits
    /\ rep < MaxRepetitions
    /\ qc_pc <= Len(Ops(circ))
    /\ LET op == Ops(circ)[qc_pc]
       IN  /\ op.gate # "measure"
           /\ psi' = Normalize(ApplyUnitary(op, psi))
    /\ qc_pc' = qc_pc + 1
    /\ UNCHANGED <<circ, meas, hist, rep, final_state_vector>>
    /\ UNCHANGED <<psVars, saVars, gvVars, laterVars>>

\* The next operation is a measurement: an outcome of non-zero probability
\* is drawn, recorded under the key, and the state collapses.
Measure ==
    /\ circ \in Circuits \cup SimulateCircuits
    /\ rep < MaxRepetitions
    /\ qc_pc <= Len(Ops(circ))
    /\ LET op == Ops(circ)[qc_pc]
       IN  /\ op.gate = "measure"
           /\ \E b \in Bit :
                /\ Weight(psi, op.qs[1], b) > 0
                /\ psi' = Collapse(psi, op.qs[1], b)
                /\ meas' = (op.key :> b) @@ meas
    /\ qc_pc' = qc_pc + 1
    /\ UNCHANGED <<circ, hist, rep, final_state_vector>>
    /\ UNCHANGED <<psVars, saVars, gvVars, laterVars>>

\* The repetition is over: its outcomes are counted and the next one starts
\* from |0...0>.
EndRepetition ==
    /\ circ \in Circuits
    /\ rep < MaxRepetitions
    /\ qc_pc > Len(Ops(circ))
    /\ LET keys == HistKeys(circ)
           t == [i \in 1..2 |-> meas[keys[i]]]
       IN  hist' = [hist EXCEPT ![t] = @ + 1]
    /\ rep' = rep + 1
    /\ qc_pc' = 1
    /\ psi' = ZeroState(circ)
    /\ meas' = <<>>
    /\ UNCHANGED <<circ, final_state_vector>>
    /\ UNCHANGED <<psVars, saVars, gvVars, laterVars>>

\* simulator.simulate has applied every operation of the circuit, the
\* measurement included: the result's final_state_vector is the state it
\* ended in.
SimulateEnd ==
    /\ circ \in SimulateCircuits
    /\ rep < MaxRepetitions
    /\ qc_pc > Len(Ops(circ))
    /\ final_state_vector' = psi
    /\ rep' = rep + 1
    /\ qc_pc' = 1
    /\ psi' = ZeroState(circ)
    /\ meas' = <<>>
    /\ UNCHANGED <<circ, hist>>
    /\ UNCHANGED <<psVars, saVars, gvVars, laterVars>>

\* simulator.run has returned.
RunDone == circ \in Circuits /\ rep = MaxRepetitions

-----------------------------------------------------------------------------
(***************************************************************************)
(* get_vector.                                                             *)
(*                                                                         *)
(* A complex number is kept exactly, in polar form: m is its squared       *)
(* modulus in units of 1/MagUnits and k its phase (what cmath.phase        *)
(* returns) in units of pi/HalfTurn, from -HalfTurn (a phase of -pi, which *)
(* a negative zero imaginary part gives) to HalfTurn (pi).                 *)
(***************************************************************************)
\* Squared moduli are the multiples of 1/MagUnits up to 1.
MagUnits == 4

\* Phases are the multiples of pi/HalfTurn.
HalfTurn == 4

Complex(m, k) == [m |-> m, k |-> k]

\* The amplitudes drawn: a zero amplitude has phase 0, pi or -pi (by the
\* signs of its zero parts), any other amplitude any phase.
Amplitudes ==
    {Complex(m, k) : m \in 1..MagUnits, k \in (0 - HalfTurn)..HalfTurn}
    \cup {Complex(0, k) : k \in {0 - HalfTurn, 0, HalfTurn}}

\* cmath.phase(z)
Phase(z) == z.k

\* cmath.isclose(angle, cmath.pi)
IsClosePi(angle) == angle = HalfTurn

\* The phase used as cmath.phase returned it, pi included (mutant).
SnapNone(angle) == angle

\* The phase with a value close to pi replaced by 0.
Snap(angle) == IF IsClosePi(angle) THEN 0 ELSE angle

\* cmath.exp(1j*angle): modulus 1, phase angle.
Cis(angle) == Complex(MagUnits, angle)

\* A phase brought back into (-pi, pi].
WrapPhase(k) == ((k + HalfTurn - 1) % (2 * HalfTurn)) - HalfTurn + 1

\* z / d for a divisor of modulus 0 (ZeroDivisionError) or 1.
CDiv(z, d) ==
    IF d.m = 0 THEN [exc |-> "ZeroDivisionError", val |-> z]
    ELSE [exc |-> "none",
          val |-> Complex((z.m * MagUnits) \div d.m, WrapPhase(z.k - d.k))]

\* The phase whose exponential is divided out of both amplitudes.
ChooseAngle(aa, ab) ==
    IF (ab < 0 /\ aa < ab) \/ (ab > 0 /\ aa > ab) THEN ab ELSE aa

\* The special-case test with "and" for "or" (mutant).
IsSpecialCaseBoth(a, b) == a.m = 0 /\ b.m = 0

\* abs(alpha) == 0 or abs(beta) == 0
IsSpecialCase(a, b) == a.m = 0 \/ b.m = 0

SouthPole == <<0, 0, 0 - 1>>
NorthPole == <<0, 0, 1>>

\* The poles returned the other way round (mutant).
PoleOfSwapped(a) == IF a.m = 0 THEN NorthPole ELSE SouthPole

\* if alpha == 0: return [0,0,-1]  else: return [0,0,1]
PoleOf(a) == IF a.m = 0 THEN SouthPole ELSE NorthPole

\* cmath.sin(theta/2) = 0 for theta = 2*cmath.acos(a): sin(acos(a)) is
\* sqrt(1 - a*a), which is 0 exactly when a is 1 or -1.
SinHalfThetaIsZero(a) == a.m = MagUnits /\ (2 * a.k) % (2 * HalfTurn) = 0

(***************************************************************************)
(* The coordinates.  With a = alpha_new, b = beta_new and                  *)
(* s = sin(theta/2), s*s = 1 - a*a, the code's expressions are             *)
(*     sin(theta) = 2*a*s        exp(1j*phi) = b/s                         *)
(*     x = sin(theta)*cos(phi) = (a/b) * (b*b + 1 - a*a)                   *)
(*     y = sin(theta)*sin(phi) = -1j * (a/b) * (b*b - 1 + a*a)             *)
(*     z = cos(theta)          = 2*a*a - 1                                 *)
(* whatever branch acos and log take.  They are evaluated exactly: a*a and *)
(* b*b are rational multiples of powers of eta = exp(1j*pi/(2*HalfTurn)),  *)
(* so the sums live in the integer polynomials in eta with                 *)
(* eta^(2*HalfTurn) = -1, and a/b is such a power times                    *)
(* sqrt(a.m / b.m).  A returned coordinate is the record                   *)
(* [rad |-> <<n, d>>, val |-> p, den |-> e] for sqrt(n/d) * p / e, p real. *)
(***************************************************************************)
RDim == 2 * HalfTurn
RIdx == 0..(RDim - 1)

\* c * eta^j
Eta(c, j) ==
    LET r == j % (2 * RDim)
    IN  [n \in RIdx |-> IF r < RDim
                        THEN (IF n = r THEN c ELSE 0)
                        ELSE (IF n = r - RDim THEN 0 - c ELSE 0)]

RAdd(p, q) == [n \in RIdx |-> p[n] + q[n]]
RSub(p, q) == [n \in RIdx |-> p[n] - q[n]]
RScale(c, p) == [n \in RIdx |-> c * p[n]]

RMul(p, q) ==
    [n \in RIdx |->
        SumOver(RIdx, [i \in RIdx |-> IF i <= n THEN p[i] * q[n - i]
                                      ELSE 0 - p[i] * q[n - i + RDim]])]

\* the complex conjugate: eta^n goes to eta^(-n) = -eta^(RDim - n)
RConj(p) == [n \in RIdx |-> IF n = 0 THEN p[0] ELSE 0 - p[RDim - n]]

\* z.real, doubled
TwiceReal(p) == RAdd(p, RConj(p))

\* MagUnits * z*z for z in polar form
Square(z) == Eta(z.m, 4 * z.k)

\* x.real
CoordX(a, b) ==
    LET P == RSub(RAdd(Square(b), Eta(MagUnits, 0)), Square(a))
    IN  [rad |-> <<a.m, b.m>>,
         val |-> TwiceReal(RMul(Eta(1, 2 * (a.k - b.k)), P)),
         den |-> 2 * MagUnits]

\* y.real
CoordY(a, b) ==
    LET Q == RAdd(RSub(Square(b), Eta(MagUnits, 0)), Square(a))
    IN  [rad |-> <<a.m, b.m>>,
         val |-> TwiceReal(RMul(Eta(1, 2 * (a.k - b.k) - HalfTurn), Q)),
         den |-> 2 * MagUnits]

\* z.real
CoordZ(a) ==
    [rad |-> <<1, 1>>,
     val |-> TwiceReal(RSub(RScale(2, Square(a)), Eta(MagUnits, 0))),
     den |-> 2 * MagUnits]

NoValue == [kind |-> "none", vec |-> <<>>]

GvIdle ==
    /\ alpha = Complex(0, 0)
    /\ beta = Complex(0, 0)
    /\ gv_pc = "idle"
    /\ angle_alpha = 0
    /\ angle_beta = 0
    /\ denominator = Complex(0, 0)
    /\ alpha_new = Complex(0, 0)
    /\ beta_new = Complex(0, 0)
    /\ gv_ret = NoValue
    /\ gv_exc = "none"

\* get_vector(alpha, beta) is called.
GvInit ==
    /\ alpha \in Amplitudes
    /\ beta \in Amplitudes
    /\ gv_pc = "phases"
    /\ angle_alpha = 0
    /\ angle_beta = 0
    /\ denominator = Complex(0, 0)
    /\ alpha_new = Complex(0, 0)
    /\ beta_new = Complex(0, 0)
    /\ gv_ret = NoValue
    /\ gv_exc = "none"

\* get phases, and replace a phase close to pi by 0
GvPhases ==
    /\ gv_pc = "phases"
    /\ angle_alpha' = Snap(Phase(alpha))
    /\ angle_beta' = Snap(Phase(beta))
    /\ gv_pc' = "denominator"
    /\ UNCHANGED <<alpha, beta, denominator, alpha_new, beta_new, gv_ret, gv_exc>>
    /\ UNCHANGED <<psVars, saVars, qcVars, laterVars>>

\* the branch that picks the denominator
GvDenominator ==
    /\ gv_pc = "denominator"
    /\ denominator' = Cis(ChooseAngle(angle_alpha, angle_beta))
    /\ gv_pc' = "eliminate"
    /\ UNCHANGED <<alpha, beta, angle_alpha, angle_beta, alpha_new, beta_new,
                   gv_ret, gv_exc>>
    /\ UNCHANGED <<psVars, saVars, qcVars, laterVars>>

\* eliminate global phase: the two divisions by the denominator
GvEliminate ==
    /\ gv_pc = "eliminate"
    /\ LET ra == CDiv(alpha, denominator)
           rb == CDiv(beta, denominator)
       IN  IF ra.exc # "none" \/ rb.exc # "none"
           THEN /\ gv_exc' = "ZeroDivisionError"
                /\ gv_pc' = "raised"
                /\ UNCHANGED <<alpha_new, beta_new>>
           ELSE /\ alpha_new' = ra.val
                /\ beta_new' = rb.val
                /\ gv_pc' = "special"
                /\ UNCHANGED gv_exc
    /\ UNCHANGED <<alpha, beta, angle_alpha, angle_beta, denominator, gv_ret>>
    /\ UNCHANGED <<psVars, saVars, qcVars, laterVars>>

\* special case to avoid division by zero: a pole is returned, or the
\* function goes on to the spherical angles
GvSpecialCase ==
    /\ gv_pc = "special"
    /\ IF IsSpecialCase(alpha, beta)
       THEN /\ gv_ret' = [kind |-> "pole", vec |-> PoleOf(alpha)]
            /\ gv_pc' = "returned"
       ELSE /\ gv_pc' = "spherical"
            /\ UNCHANGED gv_ret
    /\ UNCHANGED <<alpha, beta, angle_alpha, angle_beta, denominator, alpha_new,
                   beta_new, gv_exc>>
    /\ UNCHANGED <<psVars, saVars, qcVars, laterVars>>

\* theta, phi (with its division by sin(theta/2)) and the coordinates
GvSpherical ==
    /\ gv_pc = "spherical"
    /\ IF SinHalfThetaIsZero(alpha_new)
       THEN /\ gv_exc' = "ZeroDivisionError"
            /\ gv_pc' = "raised"
            /\ UNCHANGED gv_ret
       ELSE /\ gv_ret' = [kind |-> "spherical",
                           vec |-> <<CoordX(alpha_new, beta_new),
                                     CoordY(alpha_new, beta_new),
                                     CoordZ(alpha_new)>>]
            /\ gv_pc' = "returned"
            /\ UNCHANGED gv_exc
    /\ UNCHANGED <<alpha, beta, angle_alpha, angle_beta, denominator, alpha_new,
                   beta_new>>
    /\ UNCHANGED <<psVars, saVars, qcVars, laterVars>>

-----------------------------------------------------------------------------
(***************************************************************************)
(* plot_histogram.                                                         *)
(*                                                                         *)
(* counts is a mapping (the Counter that histogram returns); what the      *)
(* function uses of it is its length and the iteration order of its keys   *)
(* and values, so it is kept as the sequence of its items in that order.   *)
(***************************************************************************)
\* The keys drawn: measurement outcomes as histogram folds them.
PlotKeys == {0, 1, 2}

\* The key orders: sequences of distinct keys.
KeyOrders ==
    {ks \in UNION {[1..n -> PlotKeys] : n \in 0..Cardinality(PlotKeys)} :
        \A i, j \in DOMAIN ks : i # j => ks[i] # ks[j]}

\* Every mapping from some of the keys to counts, in every iteration order.
OrderedCounts ==
    UNION {{[i \in DOMAIN ks |-> [key |-> ks[i], value |-> vs[i]]] :
               vs \in [DOMAIN ks -> 0..MaxCount]} : ks \in KeyOrders}

\* counts.keys()
Keys(c) == [i \in DOMAIN c |-> c[i].key]

\* counts.values()
Values(c) == [i \in DOMAIN c |-> c[i].value]

\* positions counted from 1 (mutant)
ArangeFromOne(n) == [i \in 1..n |-> i]

\* np.arange(n)
arange(n) == [i \in 1..n |-> i - 1]

\* plt.bar(x, height): one bar per position, with the height at its index
Bar(xs, height) == [i \in DOMAIN xs |-> [x |-> xs[i], height |-> height[i]]]

\* plt.xticks(ticks, labels): the ticks replace the axis' ticks
XTicks(ticks, labels) ==
    [i \in DOMAIN ticks |-> [x |-> ticks[i], label |-> labels[i]]]

PhIdle ==
    /\ ph_counts = <<>>
    /\ ph_pc = "idle"
    /\ ph_x = <<>>
    /\ ph_bars = <<>>
    /\ ph_xticks = <<>>

PhInit ==
    /\ ph_counts \in OrderedCounts
    /\ ph_pc = "call"
    /\ ph_x = <<>>
    /\ ph_bars = <<>>
    /\ ph_xticks = <<>>

\* plot_histogram(counts), up to plt.show()
CallPlotHistogram ==
    /\ ph_pc = "call"
    /\ LET xs == arange(Len(ph_counts))
       IN  /\ ph_x' = xs
           /\ ph_bars' = Bar(xs, Values(ph_counts))
           /\ ph_xticks' = XTicks(xs, Keys(ph_counts))
    /\ ph_pc' = "shown"
    /\ UNCHANGED ph_counts
    /\ UNCHANGED <<psVars, saVars, qcVars, gvVars, hhlVars, dgVars>>


-----------------------------------------------------------------------------
(***************************************************************************)
(* The eigenvalue register of the HHL circuit: phase estimation, inverse   *)
(* Fourier transform and the swap of the eigenvalue inversion, and their   *)
(* uncomputation.                                                          *)
(*                                                                         *)
(* The gates' angles are multiples of pi/4 and their entries are, up to    *)
(* powers of 1/sqrt(2), sums of powers of omega = exp(1j*pi/4).  An        *)
(* amplitude is kept exactly as the integer coefficients of                *)
(* 1, omega, omega^2, omega^3 (omega^4 = -1), and a state vector as such   *)
(* amplitudes with the power k of 1/sqrt(2) they are all multiplied by,    *)
(* k as small as possible.                                                 *)
(***************************************************************************)
\* pi, in the unit pi/4 of the angles
QuarterPi == 4

WIdx == 0..(QuarterPi - 1)

\* c * omega^j
Omega(c, j) ==
    LET r == j % (2 * QuarterPi)
    IN  [n \in WIdx |-> IF r < QuarterPi
                        THEN (IF n = r THEN c ELSE 0)
                        ELSE (IF n = r - QuarterPi THEN 0 - c ELSE 0)]

WAdd(a, b) == [n \in WIdx |-> a[n] + b[n]]

WMul(a, b) ==
    [n \in WIdx |->
        SumOver(WIdx, [i \in WIdx |-> IF i <= n THEN a[i] * b[n - i]
                                      ELSE 0 - a[i] * b[n - i + QuarterPi]])]

\* sqrt(2) = omega + 1/omega = omega - omega^3
Sqrt2 == WAdd(Omega(1, 1), Omega(0 - 1, QuarterPi - 1))

RECURSIVE Sqrt2Pow(_)
Sqrt2Pow(k) == IF k = 0 THEN Omega(1, 0) ELSE WMul(Sqrt2, Sqrt2Pow(k - 1))

\* def u3(t, p, l): the matrix, as [k, m] for m / sqrt(2)^k.  cos(t/2) and
\* sin(t/2) are 1 and 0 for t = 0 and 1/sqrt(2) and +-1/sqrt(2) for
\* t = +-pi/2, the only values the two sequences use.
u3(t, p, l) ==
    CASE t = 0 ->
           [k |-> 0,
            m |-> << <<Omega(1, 0), Omega(0, 0)>>,
                     <<Omega(0, 0), Omega(1, p + l)>> >>]
      [] t \in {QuarterPi \div 2, 0 - (QuarterPi \div 2)} ->
           LET sg == IF t > 0 THEN 1 ELSE 0 - 1
           IN  [k |-> 1,
                m |-> << <<Omega(1, 0), Omega(0 - sg, l)>>,
                         <<Omega(sg, p), Omega(1, p + l)>> >>]

\* cirq.H
HMatrix ==
    [k |-> 1,
     m |-> << <<Omega(1, 0), Omega(1, 0)>>,
              <<Omega(1, 0), Omega(0 - 1, 0)>> >>]

\* cu3(t, p, l).on(c, tq): ControlledGate(u3(t, p, l)), control first
cu3(t, p, l, c, tq) ==
    [gate |-> "cu3", qs |-> <<c, tq>>, t |-> t, p |-> p, l |-> l]

\* cu1(l).on(c, tq)
cu1(l, c, tq) == cu3(0, 0, l, c, tq)

\* cirq.H.on_each(qs)
HOnEach(qs) == [gate |-> "H_each", qs |-> qs]

\* "# Superposition", "# Controlled-U0", "# Controlled-U1"
PhaseEstimation ==
    << HOnEach(<<1, 2>>),
       cu3(0 - 2, 0 - 2, 2, 2, 3),
       cu1(3, 2, 3),
       Gate2("CNOT", 2, 3),
       cu1(3, 2, 3),
       Gate2("CNOT", 2, 3),
       Gate2("CNOT", 1, 3) >>

\* the inverse Fourier transformation of the HHL circuit
HhlInverseQFT ==
    << Gate2("SWAP", 1, 2),
       Gate1("H", 2),
       cu1(0 - 2, 1, 2),
       Gate1("H", 1) >>

\* the eigenvalue inversion
EigenvalueInversion == << Gate2("SWAP", 1, 2) >>

\* the three cells, in the order they are appended to hhl
Forward == PhaseEstimation \o HhlInverseQFT \o EigenvalueInversion

\* The uncomputation with the angles of the forward cu3 kept (mutant).
UncomputeSameAngles ==
    << Gate2("SWAP", 1, 2),
       Gate1("H", 1),
       cu1(2, 1, 2),
       Gate1("H", 2),
       Gate2("SWAP", 2, 1),
       Gate2("CNOT", 1, 3),
       Gate2("CNOT", 2, 3),
       cu1(0 - 3, 2, 3),
       Gate2("CNOT", 2, 3),
       cu1(0 - 3, 2, 3),
       cu3(0 - 2, 0 - 2, 2, 2, 3),
       HOnEach(<<1, 2>>) >>

\* "Uncomputing the eigenvalue register"
Uncompute ==
    << Gate2("SWAP", 1, 2),
       Gate1("H", 1),
       cu1(2, 1, 2),
       Gate1("H", 2),
       Gate2("SWAP", 2, 1),
       Gate2("CNOT", 1, 3),
       Gate2("CNOT", 2, 3),
       cu1(0 - 3, 2, 3),
       Gate2("CNOT", 2, 3),
       cu1(0 - 3, 2, 3),
       cu3(0 - 2, 2, 0 - 2, 2, 3),
       HOnEach(<<1, 2>>) >>

\* The gates applied: the forward gates from the lo-th on, then as many
\* gates of the uncomputation.  lo = 1 is the two sequences in full.
HhlRun(lo) ==
    SubSeq(Forward, lo, Len(Forward))
        \o SubSeq(Uncompute, 1, Len(Forward) - lo + 1)

\* The basis states of q[1], q[2], q[3].
HhlBasis == [1..3 -> Bit]

\* The basis state x as a state vector.
BasisState(x) ==
    [amp |-> [y \in HhlBasis |-> IF y = x THEN Omega(1, 0) ELSE Omega(0, 0)],
     k |-> 0]

\* a / sqrt(2) is a * sqrt(2) / 2
DivisibleBySqrt2(a) == \A n \in WIdx : WMul(Sqrt2, a)[n] % 2 = 0
DivideBySqrt2(a) == [n \in WIdx |-> WMul(Sqrt2, a)[n] \div 2]

\* The same vector with the smallest power of 1/sqrt(2).
RECURSIVE Reduce(_)
Reduce(st) ==
    IF st.k > 0 /\ \A x \in HhlBasis : DivisibleBySqrt2(st.amp[x])
    THEN Reduce([amp |-> [x \in HhlBasis |-> DivideBySqrt2(st.amp[x])],
                 k |-> st.k - 1])
    ELSE st

\* The matrix U on qubit tq, applied where every qubit of ctls is 1.
ApplyMatrix(U, ctls, tq, st) ==
    Reduce(
      [amp |-> [x \in HhlBasis |->
                  IF \E c \in ctls : x[c] = 0
                  THEN WMul(Sqrt2Pow(U.k), st.amp[x])
                  ELSE WAdd(WMul(U.m[x[tq] + 1][1],
                                 st.amp[[x EXCEPT ![tq] = 0]]),
                            WMul(U.m[x[tq] + 1][2],
                                 st.amp[[x EXCEPT ![tq] = 1]]))],
       k |-> st.k + U.k])

RECURSIVE HOnEachFrom(_, _, _)
HOnEachFrom(qs, i, st) ==
    IF i > Len(qs) THEN st
    ELSE HOnEachFrom(qs, i + 1, ApplyMatrix(HMatrix, {}, qs[i], st))

\* One appended operation applied to the state vector.
HhlApply(op, st) ==
    CASE op.gate = "H" -> ApplyMatrix(HMatrix, {}, op.qs[1], st)
      [] op.gate = "H_each" -> HOnEachFrom(op.qs, 1, st)
      [] op.gate = "cu3" ->
           ApplyMatrix(u3(op.t, op.p, op.l), {op.qs[1]}, op.qs[2], st)
      [] op.gate = "CNOT" ->
           [st EXCEPT !.amp =
               [x \in HhlBasis |->
                   st.amp[IF x[op.qs[1]] = 1 THEN Flip(x, op.qs[2]) ELSE x]]]
      [] op.gate = "SWAP" ->
           [st EXCEPT !.amp =
               [x \in HhlBasis |->
                   st.amp[[x EXCEPT ![op.qs[1]] = x[op.qs[2]],
                                    ![op.qs[2]] = x[op.qs[1]]]]]]

HhlIdle ==
    /\ hhl_in = <<>>
    /\ hhl_from = 0
    /\ hhl_pc = 0
    /\ hhl_psi = <<>>

HhlInit ==
    /\ hhl_in \in HhlBasis
    /\ hhl_from \in 1..Len(Forward)
    /\ hhl_pc = 1
    /\ hhl_psi = BasisState(hhl_in)

\* The simulator applies the next gate.
HhlGate ==
    /\ hhl_pc >= 1
    /\ hhl_pc <= Len(HhlRun(hhl_from))
    /\ hhl_psi' = HhlApply(HhlRun(hhl_from)[hhl_pc], hhl_psi)
    /\ hhl_pc' = hhl_pc + 1
    /\ UNCHANGED <<hhl_in, hhl_from>>
    /\ UNCHANGED <<psVars, saVars, qcVars, gvVars, phVars, dgVars>>

HhlDone == hhl_pc >= 1 /\ hhl_pc = Len(HhlRun(hhl_from)) + 1

-----------------------------------------------------------------------------
(***************************************************************************)
(* The degeneracy cell: the sampler is read num_reads times at beta = 1,   *)
(* where every configuration has non-zero probability, and the loop counts *)
(* the rows of the aggregated sample set by energy.                        *)
(***************************************************************************)
\* num_reads of the cell, scaled down (100 in the notebook).
num_reads == 3

\* The spin configurations of the model.
Configs == [Nodes -> {0 - 1, 1}]

\* Number of samples in the response.
NumSamples(r) == SumOver(DOMAIN r, r)

\* response.aggregate(): one row per distinct sample.
Aggregate(r) == {[sample |-> s, energy |-> Energy(s), num_occurrences |-> r[s]] :
                    s \in DOMAIN r}

\* .data() yields the rows sorted by energy: the rows that can come next.
NextRows(rows) == {r \in rows : \A o \in rows : r.energy <= o.energy}

DgIdle ==
    /\ response = <<>>
    /\ dg_pc = "idle"
    /\ dg_rows = {}
    /\ dg_g = <<>>

DgInit ==
    /\ response = <<>>
    /\ dg_pc = "sample"
    /\ dg_rows = {}
    /\ dg_g = <<>>

\* One read of sampler.sample: some configuration is returned.
DgSample ==
    /\ dg_pc = "sample"
    /\ NumSamples(response) < num_reads
    /\ \E s \in Configs :
          response' = IF s \in DOMAIN response
                      THEN [response EXCEPT ![s] = @ + 1]
                      ELSE (s :> 1) @@ response
    /\ UNCHANGED <<dg_pc, dg_rows, dg_g>>
    /\ UNCHANGED <<psVars, saVars, qcVars, gvVars, phVars, hhlVars>>

\* g = {}; the loop starts over response.aggregate().data()
DgAggregate ==
    /\ dg_pc = "sample"
    /\ NumSamples(response) = num_reads
    /\ dg_rows' = Aggregate(response)
    /\ dg_g' = <<>>
    /\ dg_pc' = "loop"
    /\ UNCHANGED response
    /\ UNCHANGED <<psVars, saVars, qcVars, gvVars, phVars, hhlVars>>

\* One iteration of the loop.
DgCount ==
    /\ dg_pc = "loop"
    /\ \E solution \in NextRows(dg_rows) :
          /\ dg_g' = IF solution.energy \in DOMAIN dg_g
                     THEN [dg_g EXCEPT ![solution.energy] = @ + 1]
                     ELSE (solution.energy :> 1) @@ dg_g
          /\ dg_rows' = dg_rows \ {solution}
    /\ UNCHANGED <<response, dg_pc>>
    /\ UNCHANGED <<psVars, saVars, qcVars, gvVars, phVars, hhlVars>>

\* The loop is over: print("Degeneracy", g)
DgPrint ==
    /\ dg_pc = "loop"
    /\ dg_rows = {}
    /\ dg_pc' = "done"
    /\ UNCHANGED <<response, dg_rows, dg_g>>
    /\ UNCHANGED <<psVars, saVars, qcVars, gvVars, phVars, hhlVars>>

LaterIdle == PhIdle /\ HhlIdle /\ DgIdle

-----------------------------------------------------------------------------
InitPsuccess == PsInit /\ SaIdle /\ QcIdle /\ GvIdle /\ LaterIdle
NextPsuccess == CallGetPsuccess
SpecPsuccess == InitPsuccess /\ [][NextPsuccess]_vars

InitAnneal == SaInit /\ PsIdle /\ QcIdle /\ GvIdle /\ LaterIdle
NextAnneal ==
    \/ SweepBegin
    \/ ColorBegin
    \/ UpdateNode
    \/ ColorEnd
    \/ SweepEnd
    \/ AnnealDone
SpecAnneal == InitAnneal /\ [][NextAnneal]_vars

InitCircuit == QcInit /\ PsIdle /\ SaIdle /\ GvIdle /\ LaterIdle
NextCircuit ==
    \/ ApplyGate
    \/ Measure
    \/ EndRepetition
    \/ SimulateEnd
SpecCircuit == InitCircuit /\ [][NextCircuit]_vars

InitVector == GvInit /\ PsIdle /\ SaIdle /\ QcIdle /\ LaterIdle
NextVector ==
    \/ GvPhases
    \/ GvDenominator
    \/ GvEliminate
    \/ GvSpecialCase
    \/ GvSpherical
SpecVector == InitVector /\ [][NextVector]_vars

InitHistogram ==
    PhInit /\ PsIdle /\ SaIdle /\ QcIdle /\ GvIdle /\ HhlIdle /\ DgIdle
NextHistogram == CallPlotHistogram
SpecHistogram == InitHistogram /\ [][NextHistogram]_vars

InitHhl ==
    HhlInit /\ PsIdle /\ SaIdle /\ QcIdle /\ GvIdle /\ PhIdle /\ DgIdle
NextHhl == HhlGate
SpecHhl == InitHhl /\ [][NextHhl]_vars

InitDegeneracy ==
    DgInit /\ PsIdle /\ SaIdle /\ QcIdle /\ GvIdle /\ PhIdle /\ HhlIdle
NextDegeneracy ==
    \/ DgSample
    \/ DgAggregate
    \/ DgCount
    \/ DgPrint
SpecDegeneracy == InitDegeneracy /\ [][NextDegeneracy]_vars

-----------------------------------------------------------------------------
(***************************************************************************)
(* Properties of get_psuccess (SpecPsuccess).                              *)
(***************************************************************************)
\* counts[k] with an absent key read as 0.
CountOf(c, k) == IF k \in DOMAIN c THEN c[k] ELSE 0

\* Two histograms give the same counts for '01' and '11'.
SamePostSelected(c, d) ==
    /\ CountOf(c, "01") = CountOf(d, "01")
    /\ CountOf(c, "11") = CountOf(d, "11")

\* C1: whenever counts['01'] + counts['11'] is non-zero (an absent key counting
\* as 0), get_psuccess returns counts['01'] / (counts['01'] + counts['11'])
\* without raising, and every histogram with the same '01' and '11' counts
\* gives the same result whatever its other keys are.
C1_RatioOfPostSelected ==
    LET n01 == CountOf(counts, "01")
        n11 == CountOf(counts, "11")
    IN  (ps_pc \in {"returned", "raised"} /\ n01 + n11 # 0) =>
            /\ ps_pc = "returned"
            /\ ps_ret[2] > 0
            /\ ps_ret[1] * (n01 + n11) = n01 * ps_ret[2]
            /\ \A d \in CountsSet :
                   SamePostSelected(counts, d) =>
                       get_psuccess(d) = [exc |-> "none", val |-> ps_ret]

\* C1 witness: the call has returned 1 for a histogram without the key '11',
\* with '01' counted twice and '00' once.
C1_Witness ==
    /\ ps_pc = "returned"
    /\ "11" \notin DOMAIN counts
    /\ "00" \in DOMAIN counts
    /\ CountOf(counts, "00") = 1
    /\ CountOf(counts, "01") = 2
    /\ ps_ret = <<1, 1>>

\* C2: get_psuccess never raises, and it returns 0 when no post-selected
\* outcome was counted (counts['01'] + counts['11'] = 0, keys absent or not).
C2_NeverRaises ==
    /\ ps_pc # "raised"
    /\ ps_exc = "none"
    /\ (ps_pc = "returned" /\ CountOf(counts, "01") + CountOf(counts, "11") = 0)
           => ps_ret = Zero

\* C2 witness: the call has returned 0 for the empty histogram.
C2_Witness ==
    /\ ps_pc = "returned"
    /\ DOMAIN counts = {}
    /\ ps_ret = Zero

\* The returned value lies in [0, 1], and is 1 exactly when counts['01'] > 0
\* and counts['11'] is 0 or absent.
InUnitInterval ==
    ps_pc = "returned" =>
        /\ ps_ret[2] > 0
        /\ 0 <= ps_ret[1]
        /\ ps_ret[1] <= ps_ret[2]
        /\ (ps_ret[1] = ps_ret[2]) <=>
               (CountOf(counts, "01") > 0 /\ CountOf(counts, "11") = 0)

\* C18: for every counts with non-negative integer values the value of
\* get_psuccess lies in [0, 1], it is 1 exactly when counts['01'] > 0 and
\* counts['11'] is 0 or absent, and get_psuccess does not modify counts (no
\* key is added by the lookups and no value changed).
C18_ValueInUnitInterval ==
    /\ []InUnitInterval
    /\ [][counts' = counts /\ DOMAIN counts' = DOMAIN counts]_vars

\* C18 witness: the call returned 1 for a histogram that has the key '11'
\* with count 0 and '01' with count 1.
C18_Witness ==
    /\ ps_pc = "returned"
    /\ "11" \in DOMAIN counts
    /\ counts["11"] = 0
    /\ CountOf(counts, "01") = 1
    /\ ps_ret = <<1, 1>>

(***************************************************************************)
(* Properties of the clamped annealing cell (SpecAnneal).                  *)
(***************************************************************************)
\* C3: the clamped spin (node 0) is -1 from the initial configuration on, in
\* every state of the loop and after it, and no clamped node is ever among
\* the nodes the flip loop visits.
C3_ClampedSpinFixed ==
    sa_pc # "idle" =>
        /\ spins[0] = 0 - 1
        /\ \A v \in DOMAIN clamped_spins : spins[v] = clamped_spins[v]
        /\ pending \cap DOMAIN clamped_spins = {}

\* C3 witness: the loop over the betas has finished, the colour of node 0 was
\* updated in every sweep, and node 0 is still -1.
C3_Witness ==
    /\ sa_pc = "done"
    /\ sweep = num_sweeps
    /\ spins[0] = 0 - 1

\* The configurations that keep the clamped spins.
ClampedConfigs ==
    {s \in [Nodes -> {0 - 1, 1}] :
        \A v \in DOMAIN clamped_spins : s[v] = clamped_spins[v]}

\* C4 (as claimed): when the loop over the betas has finished, spins has the
\* minimum energy among the configurations with spin 0 = -1.
C4_FinalIsMinimumEnergy ==
    sa_pc = "done" =>
        \A s \in ClampedConfigs : Energy(spins) <= Energy(s)

(***************************************************************************)
(* Properties of the circuits (SpecCircuit).                               *)
(***************************************************************************)
\* C5: for H; measure m0; measure m1 on one qubit, the second measurement
\* equals the first in every repetition: the histogram over (m0, m1) never
\* counts (0, 1) or (1, 0).
C5_SecondMeasurementAgrees ==
    circ = "double" =>
        /\ hist[<<0, 1>>] = 0
        /\ hist[<<1, 0>>] = 0
        /\ ("m0" \in DOMAIN meas /\ "m1" \in DOMAIN meas) => meas["m0"] = meas["m1"]

\* C5 witness: both (0, 0) and (1, 1) have been counted.
C5_Witness ==
    /\ circ = "double"
    /\ hist[<<0, 0>>] > 0
    /\ hist[<<1, 1>>] > 0

\* C6: for H(q0); CNOT(q0, q1); measure both, the two outcomes are equal in
\* every repetition: only 00 and 11 are counted.
C6_BellOutcomesEqual ==
    circ = "bell" =>
        /\ hist[<<0, 1>>] = 0
        /\ hist[<<1, 0>>] = 0
        /\ hist[<<0, 0>>] + hist[<<1, 1>>] = rep
        /\ ("m0" \in DOMAIN meas /\ "m1" \in DOMAIN meas) => meas["m0"] = meas["m1"]

\* C6 witness: the run is over and both 00 and 11 were observed.
C6_Witness ==
    /\ circ = "bell"
    /\ RunDone
    /\ hist[<<0, 0>>] > 0
    /\ hist[<<1, 1>>] > 0

\* C7: phase estimation with |1> in the main register gives q0 = 1, q1 = 0 in
\* every repetition.
C7_QpeOneReads10 ==
    circ = "qpe1" =>
        /\ hist[<<1, 0>>] = rep
        /\ \A t \in Outcomes : t # <<1, 0>> => hist[t] = 0
        /\ "q0" \in DOMAIN meas => meas["q0"] = 1
        /\ "q1" \in DOMAIN meas => meas["q1"] = 0

\* C7 witness: every repetition of the run has been counted as (1, 0).
C7_Witness ==
    /\ circ = "qpe1"
    /\ RunDone
    /\ hist[<<1, 0>>] = MaxRepetitions

\* C8: phase estimation with |0> in the main register gives q0 = 0, q1 = 0 in
\* every repetition.
C8_QpeZeroReads00 ==
    circ = "qpe0" =>
        /\ hist[<<0, 0>>] = rep
        /\ \A t \in Outcomes : t # <<0, 0>> => hist[t] = 0
        /\ "q0" \in DOMAIN meas => meas["q0"] = 0
        /\ "q1" \in DOMAIN meas => meas["q1"] = 0

\* C8 witness: every repetition of the run has been counted as (0, 0).
C8_Witness ==
    /\ circ = "qpe0"
    /\ RunDone
    /\ hist[<<0, 0>>] = MaxRepetitions

\* C15 (as claimed): in the "After a Hadamard gate" cell the state vector
\* handed to plot_quantum_state is H|0>, the equal superposition of |0> and
\* |1>, on every execution.
C15_HadamardStatePlotted ==
    (circ = "hadamard" /\ rep > 0) =>
        \A x \in Basis("hadamard") : final_state_vector[x] = 1

\* The state handed over is a basis state, |0> or |1>.
PlottedStateIsCollapsed ==
    (circ = "hadamard" /\ rep > 0) =>
        \E b \in Bit : \A x \in Basis("hadamard") :
            final_state_vector[x] = (IF x[0] = b THEN 1 ELSE 0)

\* C17: for H(q0); measure(q0, 'm0'); measure(q1, 'm1') the qubit q1 is
\* measured as 0 in every repetition: the only outcomes (q0, q1) are (0, 0)
\* and (1, 0).  The histogram is taken with keys=['m1', 'm0'], so its tuples
\* are (m1, m0).
C17_LocalSecondQubitZero ==
    circ = "local" =>
        /\ "m1" \in DOMAIN meas => meas["m1"] = 0
        /\ hist[<<1, 0>>] = 0
        /\ hist[<<1, 1>>] = 0
        /\ hist[<<0, 0>>] + hist[<<0, 1>>] = rep

\* C17 witness: the run is over and both (q0, q1) = (0, 0) and (1, 0) were
\* counted.
C17_Witness ==
    /\ circ = "local"
    /\ RunDone
    /\ hist[<<0, 0>>] > 0
    /\ hist[<<0, 1>>] > 0

(***************************************************************************)
(* Properties of get_vector (SpecVector).                                  *)
(***************************************************************************)
\* The function is past its special-case test, in the spherical branch.
InSpherical ==
    \/ gv_pc = "spherical"
    \/ gv_pc = "returned" /\ gv_ret.kind = "spherical"
    \/ gv_pc = "raised" /\ gv_exc = "ZeroDivisionError"

\* C9: when alpha is exactly zero (beta zero or not) get_vector returns the
\* south pole [0, 0, -1]; when beta is exactly zero and alpha is not it
\* returns the north pole [0, 0, 1]; in both cases it never raises and never
\* enters the spherical-angle computation.
C9_PolesForZeroAmplitude ==
    /\ (alpha.m = 0 \/ beta.m = 0) => (~InSpherical /\ gv_pc # "raised")
    /\ (gv_pc = "returned" /\ alpha.m = 0) =>
           gv_ret = [kind |-> "pole", vec |-> <<0, 0, 0 - 1>>]
    /\ (gv_pc = "returned" /\ beta.m = 0 /\ alpha.m # 0) =>
           gv_ret = [kind |-> "pole", vec |-> <<0, 0, 1>>]

\* C9 witness: the south pole was returned for two zero amplitudes.
C9_Witness ==
    /\ gv_pc = "returned"
    /\ alpha.m = 0
    /\ beta.m = 0
    /\ gv_ret.vec = <<0, 0, 0 - 1>>

\* |alpha|^2 + |beta|^2 = 1
Normalized == alpha.m + beta.m = MagUnits

SquareOf(c) ==
    [num |-> RScale(c.rad[1], RMul(c.val, c.val)),
     den |-> c.rad[2] * c.den * c.den]

\* The returned list has length 1: x*x + y*y + z*z = 1, exactly.
UnitLength(ret) ==
    IF ret.kind = "pole"
    THEN ret.vec[1] * ret.vec[1] + ret.vec[2] * ret.vec[2]
             + ret.vec[3] * ret.vec[3] = 1
    ELSE LET sx == SquareOf(ret.vec[1])
             sy == SquareOf(ret.vec[2])
             sz == SquareOf(ret.vec[3])
         IN  RAdd(RAdd(RScale(sy.den * sz.den, sx.num),
                       RScale(sx.den * sz.den, sy.num)),
                  RScale(sx.den * sy.den, sz.num))
                 = Eta(sx.den * sy.den * sz.den, 0)

\* C11 (as claimed): for every normalized (alpha, beta), the list
\* [x, y, z] that get_vector returns has unit length.
C11_ReturnsUnitVector ==
    (gv_pc = "returned" /\ Normalized) => UnitLength(gv_ret)

\* The denominator is the phase factor of alpha (its phase as used, after
\* the snap), so alpha_new is real.
DividedByAlphaPhase == denominator.k = angle_alpha

\* Where the length is 1: normalized amplitudes whose global phase was taken
\* from alpha.
UnitWhenAlphaPhase ==
    (gv_pc = "returned" /\ Normalized /\ DividedByAlphaPhase)
        => UnitLength(gv_ret)

\* The phase the claim says is used for an amplitude: 0 for a phase of pi,
\* the phase itself otherwise.
UsedPhase(z) == IF z.k = HalfTurn THEN 0 ELSE z.k

\* C12: a phase of alpha or of beta equal to pi is replaced by 0 before the
\* denominator is chosen, so the branch comparison and the denominator use 0
\* for that amplitude (the denominator is never exp(1j*pi)); every other
\* phase, -pi included, is used unchanged.
C12_PiSnappedToZero ==
    /\ gv_pc \notin {"idle", "phases"} =>
           /\ angle_alpha = UsedPhase(alpha)
           /\ angle_beta = UsedPhase(beta)
    /\ gv_pc \notin {"idle", "phases", "denominator"} =>
           LET ua == UsedPhase(alpha)
               ub == UsedPhase(beta)
           IN  /\ denominator.m = MagUnits
               /\ denominator.k # HalfTurn
               /\ denominator.k =
                      IF (ub < 0 /\ ua < ub) \/ (ub > 0 /\ ua > ub)
                      THEN ub ELSE ua

\* C12 witness: alpha is real and negative (phase pi), beta has a phase
\* strictly between 0 and pi, and the denominator chosen is exp(0) = 1;
\* with the phase pi compared as it is the branch would have taken beta's.
C12_Witness ==
    /\ gv_pc = "returned"
    /\ alpha.k = HalfTurn
    /\ alpha.m # 0
    /\ beta.m # 0
    /\ beta.k > 0
    /\ beta.k < HalfTurn
    /\ angle_alpha = 0
    /\ denominator.k = 0

(***************************************************************************)
(* Properties of plot_histogram (SpecHistogram).                           *)
(***************************************************************************)
\* C13: plot_histogram draws exactly one bar per key of counts, at the
\* positions 0 .. len(counts)-1; the i-th bar has the height of the i-th
\* value and the i-th x tick is labelled with the i-th key, so each bar
\* stands over the key whose count it shows.
C13_OneBarPerKey ==
    ph_pc = "shown" =>
        LET n == Len(ph_counts)
        IN  /\ Len(ph_bars) = n
            /\ Len(ph_xticks) = n
            /\ {ph_bars[i].x : i \in 1..n} = 0..(n - 1)
            /\ \A i \in 1..n :
                   /\ ph_bars[i].x = i - 1
                   /\ ph_bars[i].height = ph_counts[i].value
                   /\ ph_xticks[i].x = i - 1
                   /\ ph_xticks[i].label = ph_counts[i].key
            /\ \A it \in {ph_counts[i] : i \in 1..n} :
                   Cardinality({i \in 1..n :
                       /\ ph_xticks[i].label = it.key
                       /\ \E j \in 1..n : /\ ph_bars[j].x = ph_xticks[i].x
                                           /\ ph_bars[j].height = it.value}) = 1

\* C13 witness: a histogram whose keys iterate as 1, 0 with counts 2, 1 was
\* plotted: two bars, the first (at 0) of height 2 under the label 1.
C13_Witness ==
    /\ ph_pc = "shown"
    /\ Len(ph_counts) = 2
    /\ ph_counts[1] = [key |-> 1, value |-> 2]
    /\ ph_counts[2] = [key |-> 0, value |-> 1]
    /\ ph_bars[1] = [x |-> 0, height |-> 2]
    /\ ph_xticks[1] = [x |-> 0, label |-> 1]

(***************************************************************************)
(* Properties of the HHL eigenvalue register (SpecHhl).                    *)
(***************************************************************************)
\* The qubits an operation acts on.
QubitsOf(op) == {op.qs[i] : i \in DOMAIN op.qs}

\* C14: the uncomputation is the exact inverse of the phase-estimation,
\* inverse-Fourier and eigenvalue-inversion gates: it has as many gates, its
\* i-th gate acts on the qubits of the i-th forward gate from the end, and
\* the forward gates from any one on, followed by as many uncomputation
\* gates, bring every basis state of q1, q2, q3 back to itself (so each gate
\* is undone by its mirror gate, and the two sequences in full compose to
\* the identity).
C14_UncomputeIsInverse ==
    /\ Len(Uncompute) = Len(Forward)
    /\ \A i \in 1..Len(Forward) :
           QubitsOf(Uncompute[i]) = QubitsOf(Forward[Len(Forward) + 1 - i])
    /\ HhlDone => hhl_psi = BasisState(hhl_in)

\* C14 witness: the two sequences in full were applied to |111> and the
\* register is back in |111>.
C14_Witness ==
    /\ HhlDone
    /\ hhl_from = 1
    /\ hhl_in = [i \in 1..3 |-> 1]
    /\ hhl_psi = BasisState(hhl_in)

(***************************************************************************)
(* Properties of the degeneracy cell (SpecDegeneracy).                     *)
(***************************************************************************)
\* The number of spin configurations of the model with energy E.
Degeneracy(E) == Cardinality({s \in Configs : Energy(s) = E})

\* C16 (as claimed): after the counting loop, for every energy E that is a
\* key of g, g[E] is the degeneracy of E.
C16_CountsAreDegeneracies ==
    dg_pc = "done" => \A E \in DOMAIN dg_g : dg_g[E] = Degeneracy(E)

\* What the loop counts: the distinct sampled configurations with energy E,
\* which are at most the configurations with energy E.
CountsSampledConfigurations ==
    dg_pc = "done" =>
        \A E \in DOMAIN dg_g :
            /\ dg_g[E] = Cardinality({s \in DOMAIN response : Energy(s) = E})
            /\ dg_g[E] <= Degeneracy(E)

=============================================================================
